---- MODULE Spec2Model ----
(***************************************************************************)
(* A model of ghost.c: the word game Ghost over a trie built from a word   *)
(* list.  Characters are their ASCII codes, nodes are heap cells named by  *)
(* positive integers, NULL is 0.                                           *)
(***************************************************************************)
EXTENDS Integers, Sequences, FiniteSets, TLC

\* ---------------------------------------------------------------- constants

CHARS == 26
MAX_LENGTH == 45
MIN_LENGTH == 3
NULL == 0
EOF == -1

\* The value of a local of main before its declaration is reached, and of
\* the exit code while the process runs.
None == -1

\* ------------------------------------------------------------------- bounds

\* Longest dictionary file drawn from FileBytes.
MaxFileLen == 5
\* Longest single-word dictionary of the form aaa...a\n (letters in the word).
MaxRun == 46
\* The count of rejected letters saturates here.
MaxRejects == 2
\* Longest letter string over TestLetters the walks are tried on.
MaxTestLen == 3

\* ------------------------------------------------------------ C characters

\* <ctype.h> on the ASCII codes.
isupper(ch) == ch >= 65 /\ ch <= 90
islower(ch) == ch >= 97 /\ ch <= 122
isalpha(ch) == isupper(ch) \/ islower(ch)
isdigit(ch) == ch >= 48 /\ ch <= 57
isspace(ch) == ch = 32 \/ (ch >= 9 /\ ch <= 13)
tolower(ch) == IF isupper(ch) THEN ch + 32 ELSE ch

\* An int stored into a (signed, 8 bit) char.
ToChar(x) == ((x + 128) % 256) - 128

\* c - 'a'
LetterIndex(ch) == ch - 97

\* --------------------------------------------------------------- the inputs

\* argv[1] as a string of character codes: "", "x", "0", "1", "2", "3",
\* "-2", "2x", "x2".
ArgStrings ==
    { <<>>, <<120>>, <<48>>, <<49>>, <<50>>, <<51>>,
      <<45, 50>>, <<50, 120>>, <<120, 50>> }

\* Bytes of the short dictionary files: 'a', 'B' and '\n'.
FileBytes == {97, 66, 10}

ShortFiles == UNION { [1..n -> FileBytes] : n \in 0..MaxFileLen }

\* "cat\ncats\ncar\n", "dog\n", "it\n", and "aaaaa\naaaa" with no line
\* terminator after its last word.
ScenarioFiles ==
    { <<99, 97, 116, 10, 99, 97, 116, 115, 10, 99, 97, 114, 10>>,
      <<100, 111, 103, 10>>,
      <<105, 116, 10>>,
      <<97, 97, 97, 97, 97, 10, 97, 97, 97, 97>> }

\* One word of k letters 'a' and its line terminator, k around MAX_LENGTH.
LongFiles == { [i \in 1..(k + 1) |-> IF i <= k THEN 97 ELSE 10] :
                   k \in (MAX_LENGTH - 1)..MaxRun }

Files == ShortFiles \cup ScenarioFiles \cup LongFiles

\* What a player may type at the prompt: every lower case letter, 'A', 'B',
\* and the non-letters '1' and '-'.
InputChars == (97..122) \cup {65, 66, 49, 45}

\* ------------------------------------------------------------------- atoi

RECURSIVE SkipSpace(_, _)
SkipSpace(s, i) ==
    IF i <= Len(s) /\ isspace(s[i]) THEN SkipSpace(s, i + 1) ELSE i

RECURSIVE Digits(_, _, _)
Digits(s, i, acc) ==
    IF i <= Len(s) /\ isdigit(s[i])
    THEN Digits(s, i + 1, acc * 10 + (s[i] - 48))
    ELSE acc

\* atoi: leading white space, an optional sign, then the digits up to the
\* first character that is not one; 0 when there are none.
atoi(s) ==
    LET i == SkipSpace(s, 1)
        neg == i <= Len(s) /\ s[i] = 45
        j == IF i <= Len(s) /\ (s[i] = 45 \/ s[i] = 43) THEN i + 1 ELSE i
        v == Digits(s, j, 0)
    IN  IF neg THEN 0 - v ELSE v

\* ------------------------------------------------------------------- state

VARIABLES
    pc,            \* where main is
    argc, argv1,   \* the command line
    N,             \* main: number of players
    exit_code,     \* the value main returned, None while running
    load_called,   \* whether load() has been entered
    dict, pos,     \* load: the open file's bytes and the read position
    root,          \* the global root of the trie
    heap,          \* the nodes malloc returned, heap[id]
    iterator,      \* load: the node the current word has reached
    curr_player, letter_count, fragment, letter,   \* main's game state
    spill,         \* bytes stored past the end of fragment
    stdin_read,    \* whether scanf has read a letter
    out,           \* the last message printed by the game loop
    rejects,       \* letters rejected so far (saturating)
    movers,        \* the players whose letters were accepted, in order
    stack,         \* freeNode: the frames of the recursion
    freeLog,       \* the pointers passed to free(), in order
    badRead        \* a child slot of a freed node was read

vars == << pc, argc, argv1, N, exit_code, load_called, dict, pos, root, heap,
           iterator, curr_player, letter_count, fragment, letter, spill,
           stdin_read, out, rejects, movers, stack, freeLog, badRead >>

trieVars == << root, heap >>
loadVars == << dict, pos, iterator >>
gameVars == << curr_player, letter_count, fragment, letter, spill,
               stdin_read, out, rejects, movers >>
freeVars == << stack, freeLog, badRead >>

\* --------------------------------------------------------------- the trie

\* A node whose is_word is left as malloc returned it, here nonzero.
NewNodeAsWord ==
    [is_word |-> TRUE, children |-> [i \in 0..(CHARS - 1) |-> NULL]]

\* A node as load initialises it: is_word false, every child NULL.
NewNode == [is_word |-> FALSE, children |-> [i \in 0..(CHARS - 1) |-> NULL]]

\* malloc: the next unused cell.
Malloc(h) == Len(h) + 1

Init ==
    /\ pc = "main"
    /\ argc \in {1, 2, 3}
    /\ argv1 \in (IF argc = 1 THEN {<<>>} ELSE ArgStrings)
    /\ N = None
    /\ exit_code = None
    /\ load_called = FALSE
    /\ dict = <<>>
    /\ pos = None
    /\ root = NULL
    /\ heap = <<>>
    /\ iterator = None
    /\ curr_player = None
    /\ letter_count = None
    /\ fragment = <<>>
    /\ letter = None
    /\ spill = <<>>
    /\ stdin_read = FALSE
    /\ out = "none"
    /\ rejects = 0
    /\ movers = <<>>
    /\ stack = <<>>
    /\ freeLog = <<>>
    /\ badRead = FALSE

\* ------------------------------------------------------------------- main

\* main, lines 55-66: the argument checks.
CheckArgs ==
    /\ pc = "main"
    /\ IF argc # 2
       THEN /\ pc' = "exited"
            /\ exit_code' = 1
            /\ N' = N
       ELSE IF atoi(argv1) < 2
       THEN /\ pc' = "exited"
            /\ exit_code' = 2
            /\ N' = atoi(argv1)
       ELSE /\ pc' = "call_load"
            /\ exit_code' = exit_code
            /\ N' = atoi(argv1)
    /\ UNCHANGED << argc, argv1, load_called >>
    /\ UNCHANGED << trieVars, loadVars, gameVars, freeVars >>

\* A main that does not test what load returned and starts the game.
LoadFailedIgnored ==
    /\ pc' = "play"
    /\ curr_player' = 1
    /\ letter_count' = 0
    /\ fragment' = [i \in 0..(MAX_LENGTH - 1) |-> 0]
    /\ letter' = root'
    /\ UNCHANGED << argc, argv1, N, exit_code, freeVars >>
    /\ UNCHANGED << spill, stdin_read, out, rejects, movers >>

\* main, lines 72-75: load returned false.
LoadFailed ==
    /\ pc' = "exited"
    /\ exit_code' = 3
    /\ UNCHANGED << argc, argv1, N, gameVars, freeVars >>

\* ------------------------------------------------------------------- load

\* An end of word that marks the root instead of the node reached.
MarkRoot(h, it) == [h EXCEPT ![1].is_word = TRUE]

\* Line 208: the node the word ended at becomes a word.
MarkWord(h, it) == [h EXCEPT ![it].is_word = TRUE]

\* A load that goes on from the end of the last word.
KeepIterator(r, it) == it

\* Line 211: where the next word starts.
ResetIterator(r, it) == r

\* Lines 219-229: a new node, initialised, hung on children[index] of it.
AddChild(h, it, index) ==
    [Append(h, NewNode) EXCEPT ![it].children[index] = Malloc(h)]

\* load, lines 181-183: fopen fails, load returns false.
LoadNoFile ==
    /\ pc = "call_load"
    /\ load_called' = TRUE
    /\ UNCHANGED << trieVars, loadVars >>
    /\ LoadFailed

\* load, lines 181-190: the file opens and the root cannot be allocated.
LoadNoRoot ==
    /\ pc = "call_load"
    /\ load_called' = TRUE
    /\ \E f \in Files : dict' = f
    /\ pos' = 1
    /\ UNCHANGED << trieVars, iterator >>
    /\ LoadFailed

\* load, lines 181-196: the file opens, the root is allocated and cleared.
LoadOpen ==
    /\ pc = "call_load"
    /\ load_called' = TRUE
    /\ \E f \in Files : dict' = f
    /\ pos' = 1
    /\ heap' = Append(heap, NewNode)
    /\ root' = Malloc(heap)
    /\ iterator' = Malloc(heap)
    /\ pc' = "load_loop"
    /\ UNCHANGED << argc, argv1, N, exit_code, gameVars, freeVars >>

\* fgetc stored into the char input (line 199), folded (line 202).
Input == tolower(ToChar(dict[pos]))

\* load, lines 199-212: one turn of the loop on a line terminator.
LoadNewline ==
    /\ pc = "load_loop"
    /\ pos <= Len(dict)
    /\ ToChar(dict[pos]) # EOF
    /\ Input = 10
    /\ heap' = MarkWord(heap, iterator)
    /\ iterator' = ResetIterator(root, iterator)
    /\ pos' = pos + 1
    /\ UNCHANGED << pc, argc, argv1, N, exit_code, load_called, dict, root >>
    /\ UNCHANGED << gameVars, freeVars >>

\* A turn of the loop that allocates a node without testing the slot.
LoadLetterAlwaysNew ==
    /\ pc = "load_loop"
    /\ pos <= Len(dict)
    /\ ToChar(dict[pos]) # EOF
    /\ Input # 10
    /\ LET index == LetterIndex(Input)
       IN  /\ heap' = AddChild(heap, iterator, index)
           /\ iterator' = heap'[iterator].children[index]
    /\ pos' = pos + 1
    /\ UNCHANGED << pc, argc, argv1, N, exit_code, load_called, dict, root >>
    /\ UNCHANGED << gameVars, freeVars >>

\* load, lines 199-233: one turn of the loop on any other character.
LoadLetter ==
    /\ pc = "load_loop"
    /\ pos <= Len(dict)
    /\ ToChar(dict[pos]) # EOF
    /\ Input # 10
    /\ LET index == LetterIndex(Input)
       IN  /\ heap' = IF heap[iterator].children[index] = NULL
                      THEN AddChild(heap, iterator, index)
                      ELSE heap
           /\ iterator' = heap'[iterator].children[index]
    /\ pos' = pos + 1
    /\ UNCHANGED << pc, argc, argv1, N, exit_code, load_called, dict, root >>
    /\ UNCHANGED << gameVars, freeVars >>

\* load, lines 219-223: the node for a new character cannot be allocated.
LoadNoNode ==
    /\ pc = "load_loop"
    /\ pos <= Len(dict)
    /\ ToChar(dict[pos]) # EOF
    /\ Input # 10
    /\ heap[iterator].children[LetterIndex(Input)] = NULL
    /\ pos' = pos + 1
    /\ UNCHANGED << trieVars, dict, iterator, load_called >>
    /\ LoadFailed

\* fragment[MAX_LENGTH] = "": every byte is zero.
EmptyFragment == [i \in 0..(MAX_LENGTH - 1) |-> 0]

\* A load that returns true at the end of the first line.
LoadDoneAtFirstLine ==
    /\ pc = "load_loop"
    /\ (pos > Len(dict) \/ (pos > 1 /\ dict[pos - 1] = 10))
    /\ pc' = "play"
    /\ curr_player' = 1
    /\ letter_count' = 0
    /\ fragment' = [i \in 0..(MAX_LENGTH - 1) |-> 0]
    /\ letter' = root
    /\ UNCHANGED << argc, argv1, N, exit_code, load_called >>
    /\ UNCHANGED << trieVars, loadVars, freeVars >>
    /\ UNCHANGED << spill, stdin_read, out, rejects, movers >>

\* load, lines 199 and 236-239: end of file, load returns true; main, lines
\* 72-82: the game state is created.
LoadDone ==
    /\ pc = "load_loop"
    /\ pos > Len(dict)
    /\ pc' = "play"
    /\ curr_player' = 1
    /\ letter_count' = 0
    /\ fragment' = EmptyFragment
    /\ letter' = root
    /\ UNCHANGED << argc, argv1, N, exit_code, load_called >>
    /\ UNCHANGED << trieVars, loadVars, freeVars >>
    /\ UNCHANGED << spill, stdin_read, out, rejects, movers >>

\* -------------------------------------------------------------- game loop

\* A round robin that counts the players from 0.
NextPlayerFromZero(p, n) == (p + 1) % n

\* Line 120: whose turn is next.
NextPlayer(p, n) == (p % n) + 1

\* Line 116: the fragment now spells a word long enough to end the game;
\* count is letter_count before line 123 adds the letter just stored.
GameEnds(is_word, count) == is_word /\ count >= MIN_LENGTH

\* Lines 96-101: the child slot of the cursor for the character typed.
Child(ch) == heap[letter].children[LetterIndex(tolower(ch))]

\* A rejection that costs the player the turn.
RejectedLosesTurn ==
    /\ out' = "try_again"
    /\ rejects' = IF rejects < MaxRejects THEN rejects + 1 ELSE rejects
    /\ curr_player' = (curr_player % N) + 1
    /\ UNCHANGED << pc, letter_count, fragment, letter, spill, movers >>

\* Lines 102-104: the effect of a rejected letter on the game state.
Rejected ==
    /\ out' = "try_again"
    /\ rejects' = IF rejects < MaxRejects THEN rejects + 1 ELSE rejects
    /\ UNCHANGED << pc, curr_player, letter_count, fragment, letter, spill,
                    movers >>

\* Line 109: fragment[letter_count] = c.  A store at MAX_LENGTH or beyond
\* leaves the array; where the process survives it, the byte lands outside
\* fragment.
StoreLetter(ch) ==
    IF letter_count < MAX_LENGTH
    THEN /\ fragment' = [fragment EXCEPT ![letter_count] = tolower(ch)]
         /\ spill' = spill
    ELSE /\ fragment' = fragment
         /\ spill' = Append(spill, tolower(ch))

\* main, lines 88-105: a letter is read and no word continues with it.
MoveReject ==
    /\ pc = "play"
    /\ \E ch \in InputChars :
         /\ isalpha(ch)
         /\ Child(ch) = NULL
    /\ stdin_read' = TRUE
    /\ Rejected
    /\ UNCHANGED << argc, argv1, N, exit_code, load_called >>
    /\ UNCHANGED << trieVars, loadVars, freeVars >>

\* main, lines 88-124: a letter is read and accepted, play goes on.
MoveAdvance ==
    /\ pc = "play"
    /\ \E ch \in InputChars :
         /\ isalpha(ch)
         /\ Child(ch) # NULL
         /\ ~GameEnds(heap[Child(ch)].is_word, letter_count)
         /\ StoreLetter(ch)
         /\ letter' = Child(ch)
    /\ stdin_read' = TRUE
    /\ movers' = Append(movers, curr_player)
    /\ curr_player' = NextPlayer(curr_player, N)
    /\ letter_count' = letter_count + 1
    /\ out' = "fragment"
    /\ UNCHANGED << pc, rejects >>
    /\ UNCHANGED << argc, argv1, N, exit_code, load_called >>
    /\ UNCHANGED << trieVars, loadVars, freeVars >>

\* A completing move that passes the turn on before the loop is left.
MoveCompleteNextPlayer ==
    /\ pc = "play"
    /\ \E ch \in InputChars :
         /\ isalpha(ch)
         /\ Child(ch) # NULL
         /\ GameEnds(heap[Child(ch)].is_word, letter_count)
         /\ StoreLetter(ch)
         /\ letter' = Child(ch)
    /\ stdin_read' = TRUE
    /\ movers' = Append(movers, curr_player)
    /\ out' = "loses"
    /\ pc' = "game_over"
    /\ curr_player' = (curr_player % N) + 1
    /\ UNCHANGED << letter_count, rejects >>
    /\ UNCHANGED << argc, argv1, N, exit_code, load_called >>
    /\ UNCHANGED << trieVars, loadVars, freeVars >>

\* main, lines 88-117 and 127-130: a letter is read and completes a word,
\* the loop is left and the loser announced.
MoveComplete ==
    /\ pc = "play"
    /\ \E ch \in InputChars :
         /\ isalpha(ch)
         /\ Child(ch) # NULL
         /\ GameEnds(heap[Child(ch)].is_word, letter_count)
         /\ StoreLetter(ch)
         /\ letter' = Child(ch)
    /\ stdin_read' = TRUE
    /\ movers' = Append(movers, curr_player)
    /\ out' = "loses"
    /\ pc' = "game_over"
    /\ UNCHANGED << curr_player, letter_count, rejects >>
    /\ UNCHANGED << argc, argv1, N, exit_code, load_called >>
    /\ UNCHANGED << trieVars, loadVars, freeVars >>

\* main, line 109 with letter_count >= MAX_LENGTH: the store outside the
\* array ends the process.
MoveCrash ==
    /\ pc = "play"
    /\ letter_count >= MAX_LENGTH
    /\ \E ch \in InputChars :
         /\ isalpha(ch)
         /\ Child(ch) # NULL
    /\ stdin_read' = TRUE
    /\ pc' = "aborted"
    /\ UNCHANGED << curr_player, letter_count, fragment, letter, spill, out,
                    rejects, movers >>
    /\ UNCHANGED << argc, argv1, N, exit_code, load_called >>
    /\ UNCHANGED << trieVars, loadVars, freeVars >>

\* ----------------------------------------------------------------- unload

\* The nodes free() has been given.
Freed == { freeLog[k] : k \in 1..Len(freeLog) }

\* freeNode, lines 258-261: a call on curr; nothing happens on NULL.
Enter(st, curr) ==
    IF curr = NULL THEN st
    ELSE Append(st, [curr |-> curr, i |-> 0, back |-> FALSE])

Top == stack[Len(stack)]
Pop(st) == SubSeq(st, 1, Len(st) - 1)

\* Lines 264-266: the slots of the frame's node from i on that hold a child.
\* The empty slots before the first are each tested and given to free(),
\* which does nothing with NULL.
Occupied(f) == { j \in f.i..(CHARS - 1) : heap[f.curr].children[j] # NULL }

Lowest(S) == CHOOSE j \in S : \A k \in S : j <= k

\* unload, line 248: freeNode(root) is called.
UnloadCall ==
    /\ pc = "game_over"
    /\ pc' = "freeing"
    /\ stack' = Enter(stack, root)
    /\ UNCHANGED << freeLog, badRead >>
    /\ UNCHANGED << argc, argv1, N, exit_code, load_called >>
    /\ UNCHANGED << trieVars, loadVars, gameVars >>

\* freeNode, lines 264-267: the loop reaches a child and recurses into it.
FreeDescend ==
    /\ pc = "freeing"
    /\ stack # <<>>
    /\ ~Top.back
    /\ Occupied(Top) # {}
    /\ LET j == Lowest(Occupied(Top))
           here == [Top EXCEPT !.i = j, !.back = TRUE]
       IN  stack' = Enter(Append(Pop(stack), here), heap[Top.curr].children[j])
    /\ badRead' = (badRead \/ Top.curr \in Freed)
    /\ UNCHANGED << pc, freeLog >>
    /\ UNCHANGED << argc, argv1, N, exit_code, load_called >>
    /\ UNCHANGED << trieVars, loadVars, gameVars >>

\* freeNode, line 270: back from the recursion, the child is freed.
FreeChild ==
    /\ pc = "freeing"
    /\ stack # <<>>
    /\ Top.back
    /\ freeLog' = Append(freeLog, heap[Top.curr].children[Top.i])
    /\ badRead' = (badRead \/ Top.curr \in Freed)
    /\ stack' = Append(Pop(stack), [Top EXCEPT !.i = Top.i + 1, !.back = FALSE])
    /\ UNCHANGED pc
    /\ UNCHANGED << argc, argv1, N, exit_code, load_called >>
    /\ UNCHANGED << trieVars, loadVars, gameVars >>

\* A freeNode that frees curr itself before it returns.
FreeReturnFreesCurr ==
    /\ pc = "freeing"
    /\ stack # <<>>
    /\ ~Top.back
    /\ Occupied(Top) = {}
    /\ stack' = Pop(stack)
    /\ freeLog' = Append(freeLog, Top.curr)
    /\ badRead' = (badRead \/ Top.curr \in Freed)
    /\ UNCHANGED pc
    /\ UNCHANGED << argc, argv1, N, exit_code, load_called >>
    /\ UNCHANGED << trieVars, loadVars, gameVars >>

\* freeNode, lines 264-272: no child is left, the loop ends and the call
\* returns.
FreeReturn ==
    /\ pc = "freeing"
    /\ stack # <<>>
    /\ ~Top.back
    /\ Occupied(Top) = {}
    /\ stack' = Pop(stack)
    /\ badRead' = (badRead \/ Top.curr \in Freed)
    /\ UNCHANGED << pc, freeLog >>
    /\ UNCHANGED << argc, argv1, N, exit_code, load_called >>
    /\ UNCHANGED << trieVars, loadVars, gameVars >>

\* An unload that returns false: main takes the exit of lines 134-138.
UnloadRootFails ==
    /\ pc = "freeing"
    /\ stack = <<>>
    /\ freeLog' = Append(freeLog, root)
    /\ pc' = "exited"
    /\ exit_code' = 4
    /\ UNCHANGED << stack, badRead >>
    /\ UNCHANGED << argc, argv1, N, load_called >>
    /\ UNCHANGED << trieVars, loadVars, gameVars >>

\* unload, lines 249-250: the root is freed, unload returns true; main,
\* lines 136-142: the process ends with EXIT_SUCCESS.
UnloadRoot ==
    /\ pc = "freeing"
    /\ stack = <<>>
    /\ freeLog' = Append(freeLog, root)
    /\ pc' = "exited"
    /\ exit_code' = 0
    /\ UNCHANGED << stack, badRead >>
    /\ UNCHANGED << argc, argv1, N, load_called >>
    /\ UNCHANGED << trieVars, loadVars, gameVars >>

Next ==
    \/ CheckArgs
    \/ LoadNoFile
    \/ LoadNoRoot
    \/ LoadOpen
    \/ LoadNewline
    \/ LoadLetter
    \/ LoadNoNode
    \/ LoadDone
    \/ MoveReject
    \/ MoveAdvance
    \/ MoveComplete
    \/ MoveCrash
    \/ UnloadCall
    \/ FreeDescend
    \/ FreeChild
    \/ FreeReturn
    \/ UnloadRoot

Spec == Init /\ [][Next]_vars

\* From the break of line 117 to the return of line 142 main runs on
\* without waiting for input: the steps of unload are taken.
Teardown == UnloadCall \/ FreeDescend \/ FreeChild \/ FreeReturn \/ UnloadRoot

FairSpec == Spec /\ WF_vars(Teardown)

\* ------------------------------------------------- vocabulary of the claims

\* load has returned true.
LoadSucceeded ==
    pc \in {"play", "game_over", "freeing", "aborted"}
        \/ (pc = "exited" /\ exit_code = 0)

\* The loop has been left through the break of line 117.
GameIsOver ==
    pc \in {"game_over", "freeing"} \/ (pc = "exited" /\ exit_code = 0)

\* The words of a dictionary file: its maximal runs of letters, each ended
\* by a line terminator or by the end of the file, as letter indices of the
\* lower case letters.
RECURSIVE WordsFrom(_, _, _)
WordsFrom(f, k, cur) ==
    LET done == IF cur = <<>> THEN {} ELSE {cur}
    IN  IF k > Len(f) THEN done
        ELSE IF f[k] = 10 THEN done \cup WordsFrom(f, k + 1, <<>>)
        ELSE WordsFrom(f, k + 1, Append(cur, LetterIndex(tolower(f[k]))))

SourceWords == WordsFrom(dict, 1, <<>>)

IsPrefix(P, W) == Len(P) <= Len(W) /\ SubSeq(W, 1, Len(P)) = P

IsPrefixOfWord(P, words) == \E W \in words : IsPrefix(P, W)

\* The length of the longest prefix of P that some word begins with.
MatchLen(P, words) ==
    LET S == { k \in 0..Len(P) : IsPrefixOfWord(SubSeq(P, 1, k), words) }
                 \cup {0}
    IN  CHOOSE k \in S : \A m \in S : m <= k

\* Walking from node n along P[k..]: the position of the first character
\* whose child slot is empty, 0 when there is none.
RECURSIVE StopsAt(_, _, _)
StopsAt(n, P, k) ==
    IF k > Len(P) THEN 0
    ELSE IF heap[n].children[P[k]] = NULL THEN k
    ELSE StopsAt(heap[n].children[P[k]], P, k + 1)

\* Walking from node n along P[k..]: the node reached, NULL when a child
\* slot on the way is empty.
RECURSIVE WalkFrom(_, _, _)
WalkFrom(n, P, k) ==
    IF n = NULL THEN NULL
    ELSE IF k > Len(P) THEN n
    ELSE WalkFrom(heap[n].children[P[k]], P, k + 1)

Walk(P) == WalkFrom(root, P, 1)

\* The letter strings the walks are tried on: all short strings over
\* 'a', 'b' and 'z', and every prefix of every word, alone and followed by
\* one of these letters.
TestLetters == {0, 1, 25}

ShortStrings == UNION { [1..n -> TestLetters] : n \in 0..MaxTestLen }

TestStrings(words) ==
    ShortStrings \cup
    UNION { { SubSeq(W, 1, k) : k \in 0..Len(W) } \cup
            { Append(SubSeq(W, 1, k), l) : k \in 0..Len(W), l \in TestLetters }
            : W \in words }

\* load has just returned true: no letter has been read yet.
JustLoaded == pc = "play" /\ ~stdin_read

\* The letters main has stored, in order: the bytes of fragment up to its
\* first zero, then the bytes stored past its end.
NonZero(b) == b # 0

StoredBytes ==
    SelectSeq([k \in 1..MAX_LENGTH |-> fragment[k - 1]], NonZero) \o spill

FragmentWord == [k \in 1..Len(StoredBytes) |-> LetterIndex(StoredBytes[k])]

\* --------------------------------------------------------------------- C1

\* C1: after load succeeds, walking from the root along any word of the
\* source meets no empty child slot and ends at a node whose is_word is
\* true.
C1_SourceWordsAreMarked ==
    LoadSucceeded =>
        \A W \in SourceWords :
            /\ Walk(W) # NULL
            /\ heap[Walk(W)].is_word

\* --------------------------------------------------------------------- C2

\* P against the trie: the walk along P reaches a node exactly when P is a
\* prefix of some word, and otherwise stops at the first character where P
\* leaves every word.
WalkAgrees(P, words) ==
    /\ (StopsAt(root, P, 1) = 0) <=> IsPrefixOfWord(P, words)
    /\ ~IsPrefixOfWord(P, words) =>
           StopsAt(root, P, 1) = MatchLen(P, words) + 1

\* C2 as stated: after load succeeds, for every letter string P the walk
\* along P reaches a node exactly when P is a prefix of some loaded word,
\* and otherwise stops at the first character where P leaves every word.
C2_WalkIffPrefix ==
    JustLoaded =>
        LET words == SourceWords
        IN  \A P \in TestStrings(words) : WalkAgrees(P, words)

\* C2 amended: the same, except for the empty string over a dictionary that
\* holds no word (the walk along no letters always reaches the root).
C2_WalkIffPrefixAmended ==
    JustLoaded =>
        LET words == SourceWords
        IN  \A P \in TestStrings(words) :
                (P # <<>> \/ words # {}) => WalkAgrees(P, words)

\* Three words are loaded and some string leaves them at its third letter.
C2_Witness ==
    /\ JustLoaded
    /\ Cardinality(SourceWords) = 3
    /\ \E P \in TestStrings(SourceWords) :
           StopsAt(root, P, 1) = 3 /\ MatchLen(P, SourceWords) = 2

\* --------------------------------------------------------------------- C3

\* C3: the loop is left on a valid letter exactly when the fragment with
\* that letter is a word of the dictionary longer than 3 letters: while
\* play goes on the fragment is no such word, and when the game is over it
\* is one.
C3_OverIffLongWord ==
    /\ GameIsOver =>
           (FragmentWord \in SourceWords /\ Len(FragmentWord) > MIN_LENGTH)
    /\ pc = "play" =>
           ~(FragmentWord \in SourceWords /\ Len(FragmentWord) > MIN_LENGTH)

\* --------------------------------------------------------------------- C4

\* C4: at game over the announced loser is the player whose letter was the
\* last one accepted, and is ((L - 1) mod N) + 1 for the length L of the
\* completed word, whatever N and however many letters were rejected.
C4_LoserTypedLastLetter ==
    GameIsOver =>
        /\ curr_player = movers[Len(movers)]
        /\ curr_player = ((Len(FragmentWord) - 1) % N) + 1

\* A game of three players is over after rejected letters.
C4_Witness ==
    /\ GameIsOver
    /\ N = 3
    /\ rejects > 0
    /\ Len(FragmentWord) = 4
    /\ curr_player = 1

\* --------------------------------------------------------------------- C5

\* C5: a letter with no child at the cursor leaves the player, the
\* fragment, the letter count and the cursor as they were, and the loop
\* goes on with the same player.
C5_RejectChangesNothing ==
    [][ (MoveReject \/ (pc = "play" /\ pc' = "play" /\ out' = "try_again"))
          => /\ pc' = "play"
             /\ UNCHANGED << curr_player, fragment, letter_count, letter,
                             spill >> ]_vars

\* The second player's third letter has been rejected.
C5_Witness ==
    /\ pc = "play"
    /\ out = "try_again"
    /\ letter_count = 2
    /\ curr_player = 1
    /\ N = 2

\* --------------------------------------------------------------------- C6

\* C6: play starts with player 1, the current player is always in 1..N,
\* each accepted letter that does not end the game passes the turn from p
\* to (p mod N) + 1, and with three players the first five movers are
\* 1, 2, 3, 1, 2.
C6_RoundRobin ==
    LoadSucceeded =>
        /\ curr_player \in 1..N
        /\ movers = <<>> => curr_player = 1
        /\ movers # <<>> => movers[1] = 1
        /\ \A k \in 1..(Len(movers) - 1) : movers[k + 1] = (movers[k] % N) + 1
        /\ (pc = "play" /\ movers # <<>>) =>
               curr_player = (movers[Len(movers)] % N) + 1
        /\ (N = 3 /\ Len(movers) >= 5) =>
               SubSeq(movers, 1, 5) = <<1, 2, 3, 1, 2>>

\* Three players have had five letters accepted.
C6_Witness ==
    /\ pc = "play"
    /\ N = 3
    /\ Len(movers) = 5

\* --------------------------------------------------------------------- C7

\* C7: for every dictionary load accepts, every store into fragment is at
\* an index below MAX_LENGTH: nothing is stored past its end.
C7_FragmentInBounds ==
    LoadSucceeded => (spill = <<>> /\ pc # "aborted")

\* --------------------------------------------------------------------- C8

\* A numeric argument: an optional sign, then digits and nothing else.
IsNumeric(s) ==
    LET j == IF Len(s) >= 1 /\ (s[1] = 45 \/ s[1] = 43) THEN 2 ELSE 1
    IN  /\ j <= Len(s)
        /\ \A k \in j..Len(s) : isdigit(s[k])

\* C8: a wrong argument count ends the process with 1, an N below 2 or an
\* argument that is no number ends it with 2, both before load is called;
\* a failed load ends it with 3 with no game state created and no letter
\* read.
C8_FatalChecksInOrder ==
    /\ (argc # 2 /\ pc # "main") =>
           (pc = "exited" /\ exit_code = 1 /\ ~load_called)
    /\ (argc = 2 /\ pc # "main" /\ (~IsNumeric(argv1) \/ atoi(argv1) < 2)) =>
           (pc = "exited" /\ exit_code = 2 /\ ~load_called)
    /\ exit_code = 3 =>
           /\ load_called
           /\ curr_player = None /\ letter_count = None /\ letter = None
           /\ fragment = <<>>
           /\ ~stdin_read

\* --------------------------------------------------------------------- C9

\* The nodes that can be reached from n through child slots, n included.
RECURSIVE Reach(_)
Reach(n) ==
    {n} \cup UNION { Reach(heap[n].children[j]) :
                       j \in { i \in 0..(CHARS - 1) :
                                 heap[n].children[i] # NULL } }

\* C9: unload frees every node reachable from the root and the root, each
\* exactly once, and reads no child slot of a node already freed.
C9_UnloadFreesEachOnce ==
    /\ ~badRead
    /\ Cardinality(Freed) = Len(freeLog)
    /\ (pc = "exited" /\ exit_code = 0) =>
           (Freed = Reach(root) /\ root \in Freed)

\* unload has returned on the trie of cat, cats and car.
C9_Witness ==
    /\ pc = "exited"
    /\ exit_code = 0
    /\ Len(heap) = 6
    /\ Len(freeLog) = 6
    /\ freeLog[Len(freeLog)] = root

\* -------------------------------------------------------------------- C10

\* C10: the whole file has been loaded before the first letter is read, no
\* move of the game loop changes the root, a child slot or an is_word flag
\* or allocates a node, and nothing is freed before the game is over.
C10_TrieReadOnlyInPlay ==
    /\ [](stdin_read => pos > Len(dict))
    /\ [][pc = "play" => UNCHANGED << root, heap >>]_vars
    /\ [](~GameIsOver => freeLog = <<>>)

\* Letters have been accepted and rejected over a trie with several nodes.
C10_Witness ==
    /\ pc = "play"
    /\ rejects > 0
    /\ letter_count >= 2
    /\ Len(heap) >= 4

\* -------------------------------------------------------------------- C11

\* The child slots of the cursor that hold a node: the letters the loop
\* would accept next.
Continuations == { j \in 0..(CHARS - 1) : heap[letter].children[j] # NULL }

\* C11: once play has begun the game reaches game over if the players try
\* every letter: in particular, while the loop waits for a letter the
\* cursor has a child, so that some letter is accepted.
C11_NoDeadEnd ==
    pc = "play" => Continuations # {}

\* -------------------------------------------------------------------- C12

\* C12: when an allocation fails in load, for the root or for a later
\* node, load returns false and main exits with 3; the game loop never
\* starts, so no node of the partial trie is read by it.
C12_AllocationFailureExits ==
    /\ [][(LoadNoRoot \/ LoadNoNode) =>
             (pc' = "exited" /\ exit_code' = 3 /\ letter' = None)]_vars
    /\ [](exit_code = 3 =>
             /\ pc = "exited"
             /\ letter = None /\ curr_player = None
             /\ ~stdin_read /\ movers = <<>> /\ out = "none")
    /\ [][exit_code = 3 => UNCHANGED vars]_vars

\* The allocation of a fourth node failed and the process has exited.
C12_Witness ==
    /\ pc = "exited"
    /\ exit_code = 3
    /\ Len(heap) = 3
    /\ pos > 3

\* -------------------------------------------------------------------- C13

\* The words of a dictionary file that a line terminator ends.
RECURSIVE EndedWordsFrom(_, _, _)
EndedWordsFrom(f, k, cur) ==
    IF k > Len(f) THEN {}
    ELSE IF f[k] = 10
         THEN (IF cur = <<>> THEN {} ELSE {cur})
                  \cup EndedWordsFrom(f, k + 1, <<>>)
    ELSE EndedWordsFrom(f, k + 1, Append(cur, LetterIndex(tolower(f[k]))))

EndedWords == EndedWordsFrom(dict, 1, <<>>)

\* The file has a line with no letter on it: a line terminator at its
\* start or right after another.
HasEmptyLine(f) ==
    \E k \in 1..Len(f) : f[k] = 10 /\ (k = 1 \/ f[k - 1] = 10)

\* C13: two builds from the same word source answer every query alike:
\* whether the walk along P succeeds, and the is_word flag of the node
\* reached, are fixed by the bytes of the source alone (the walk succeeds
\* exactly on the empty string and the prefixes of its words, the flag is
\* set exactly on its words ended by a line terminator, and on the root
\* when it has an empty line), whatever nodes malloc handed out.
C13_QueriesFixedBySource ==
    JustLoaded =>
        LET words == SourceWords
            ended == EndedWords
        IN  \A P \in TestStrings(words) :
                /\ (Walk(P) # NULL) <=> (P = <<>> \/ IsPrefixOfWord(P, words))
                /\ Walk(P) # NULL =>
                       (heap[Walk(P)].is_word <=>
                            (P \in ended \/ (P = <<>> /\ HasEmptyLine(dict))))

\* A trie where a word is the prefix of a longer one and a shorter prefix
\* is no word.
C13_Witness ==
    /\ JustLoaded
    /\ \E P \in TestStrings(SourceWords) :
           /\ Len(P) = 3
           /\ Walk(P) # NULL /\ heap[Walk(P)].is_word
           /\ Occupied([curr |-> Walk(P), i |-> 0]) # {}
           /\ ~heap[Walk(SubSeq(P, 1, 2))].is_word

\* -------------------------------------------------------------------- C14

\* The root after load has no child.
RootIsBare == \A j \in 0..(CHARS - 1) : heap[root].children[j] = NULL

\* C14 as stated: after load of an empty word list the root has no
\* children, and after load of any dictionary with a word the root's
\* is_word is false.
C14_RootOfLoadedTrie ==
    JustLoaded =>
        /\ SourceWords = {} => RootIsBare
        /\ SourceWords # {} => ~heap[root].is_word

\* C14 amended: the same, for the dictionaries with a word that have no
\* empty line.
C14_RootOfLoadedTrieAmended ==
    JustLoaded =>
        /\ SourceWords = {} => RootIsBare
        /\ (SourceWords # {} /\ ~HasEmptyLine(dict)) => ~heap[root].is_word

\* Two words without an empty line have been loaded.
C14_Witness ==
    /\ JustLoaded
    /\ Cardinality(EndedWords) = 2
    /\ ~HasEmptyLine(dict)
    /\ ~RootIsBare

\* -------------------------------------------------------------------- C15

\* The child slots that hold a node, as <<parent, index>>.
Edges ==
    { e \in (1..Len(heap)) \X (0..(CHARS - 1)) :
        heap[e[1]].children[e[2]] # NULL }

Target(e) == heap[e[1]].children[e[2]]

\* The non-empty prefixes of the words among the bytes load has read.
PrefixesRead ==
    UNION { { SubSeq(W, 1, k) : k \in 1..Len(W) } :
              W \in WordsFrom(SubSeq(dict, 1, pos - 1), 1, <<>>) }

\* The nodes are a tree below the root: one slot points to each other node,
\* none to the root, every slot points to a node allocated after its
\* owner, and every node is reached from the root.
IsTree ==
    LET E == Edges
    IN  /\ \A n \in 2..Len(heap) : Cardinality({ e \in E : Target(e) = n }) = 1
        /\ \A e \in E : Target(e) # root /\ Target(e) > e[1]
        /\ Reach(root) = 1..Len(heap)

\* C15: after every step of load the nodes form a strict tree (each node
\* but the root is in exactly one child slot, the root in none, no cycle),
\* a node is allocated only into a child slot that was empty, and there is
\* one node for the root and one for each distinct non-empty prefix read.
C15_LoadKeepsTree ==
    /\ []((pc = "load_loop" \/ JustLoaded) =>
             /\ IsTree
             /\ Len(heap) = 1 + Cardinality(PrefixesRead))
    /\ [][(pc = "load_loop" /\ Len(heap') # Len(heap)) =>
             /\ Len(heap') = Len(heap) + 1
             /\ heap[iterator].children[LetterIndex(Input)] = NULL
             /\ heap'[iterator].children[LetterIndex(Input)] = Len(heap')
             /\ \A n \in 1..Len(heap) : heap'[n].is_word = heap[n].is_word
             /\ \A e \in Edges : heap'[e[1]].children[e[2]] = Target(e)]_vars

\* cat and cats are read and the a of car has been walked: five nodes for
\* eleven bytes.
C15_Witness ==
    /\ pc = "load_loop"
    /\ pos = 12
    /\ Len(heap) = 5
    /\ iterator = 3

\* -------------------------------------------------------------------- C16

\* The proper prefixes of W that have four letters or more.
LongProperPrefixes(W) == { SubSeq(W, 1, k) : k \in (MIN_LENGTH + 1)..(Len(W) - 1) }

\* C16: while the game loop waits for a letter the cursor is the node the
\* walk from the root along the fragment reaches, letter_count is the
\* number of letters in the fragment and the fragment is a prefix of some
\* word of the dictionary; when the game is over the fragment is a word of
\* the dictionary and none of its proper prefixes of four letters or more
\* is a word of the dictionary.
C16_CursorTracksFragment ==
    /\ pc = "play" =>
           /\ letter = Walk(FragmentWord)
           /\ letter_count = Len(FragmentWord)
           /\ IsPrefixOfWord(FragmentWord, SourceWords)
    /\ GameIsOver =>
           /\ FragmentWord \in SourceWords
           /\ LongProperPrefixes(FragmentWord) \cap SourceWords = {}

\* -------------------------------------------------------------------- C17

\* main prints fragment as a string: in the prompt of lines 88-89, in the
\* rejection message of line 102 and in the announcement of lines 127-130.
FragmentIsPrinted == pc \in {"play", "game_over"}

WordsFitFragment == \A W \in SourceWords : Len(W) <= MAX_LENGTH

\* C17: if no word of the dictionary has more than 45 letters then,
\* whenever fragment is printed, a zero byte is left in its 45 bytes
\* after the letters: at most 44 letters are stored.
C17_FragmentTerminated ==
    (FragmentIsPrinted /\ WordsFitFragment) =>
        /\ \E i \in 0..(MAX_LENGTH - 1) : fragment[i] = 0
        /\ Len(StoredBytes) <= MAX_LENGTH - 1

\* -------------------------------------------------------------------- C18

\* A step that calls unload: the teardown begins.
UnloadIsCalled == pc # "freeing" /\ pc' = "freeing"

\* unload has run: freeNode or free has freed a node, or freeNode is active.
UnloadHasRun == pc = "freeing" \/ freeLog # <<>> \/ stack # <<>>

\* C18: a run that reaches the end of the game calls unload once, after
\* main's last read of a trie node, and then exits with code 0; a run that
\* exits with 1, 2 or 3 never calls unload; exit code 4 never occurs.
C18_UnloadOnceThenExitZero ==
    /\ [][UnloadIsCalled => pc = "game_over"]_vars
    /\ [][pc = "freeing" => pc' \in {"freeing", "exited"}]_vars
    /\ [][pc = "exited" => pc' = "exited" /\ exit_code' = exit_code]_vars
    /\ [][(pc = "freeing" \/ pc = "exited") => UNCHANGED gameVars]_vars
    /\ [](exit_code \in {1, 2, 3} => ~UnloadHasRun)
    /\ []((pc = "exited" /\ exit_code = 0) =>
              /\ stack = <<>>
              /\ Cardinality({ k \in 1..Len(freeLog) : freeLog[k] = root }) = 1)
    /\ [](exit_code # 4)
    /\ [](pc = "exited" => exit_code \in 0..3)
    /\ (GameIsOver ~> (pc = "exited" /\ exit_code = 0))

\* A game with a rejected letter has ended and the process has exited.
C18_Witness ==
    /\ pc = "exited"
    /\ exit_code = 0
    /\ rejects > 0
    /\ freeLog # <<>>

====
